---- MODULE Spec2Model ----
(***************************************************************************)
(* A model of yurl (src/yurl/__init__.py): the URL value type, its parser, *)
(* serializer, validator, the combinators replace / setdefault / + and the *)
(* CachedURL memo table.                                                   *)
(*                                                                         *)
(* A Python string is a sequence of one-character strings.  Indices in the *)
(* helpers that mirror Python (Find, RFind, Slice) are 0-based and         *)
(* half-open, as in the source, so that conditions such as                 *)
(* "column_idx > 0" read as they are written there.                        *)
(***************************************************************************)
EXTENDS Integers, Sequences, FiniteSets

VARIABLES
    op,      \* the operation that produced the current state
    inp,     \* the text handed to the last parse / get_or_parse
    self,    \* the URL the last operation was applied to
    args,    \* the arguments of the last operation (a record, or NoArgs)
    res,     \* the URL the last operation returned
    str,     \* the text the last serialization returned
    err,     \* the error the last operation raised, or NoError
    other,   \* a second URL held by the caller (operand of +, re-parse result)
    cache    \* CachedURL._cache: a function from texts to URLs

vars == <<op, inp, self, args, res, str, err, other, cache>>

-----------------------------------------------------------------------------
(* Python string primitives *)

Empty == <<>>

NL == "\n"

\* s[i:j] for 0 <= i, clipped like a Python slice
Slice(s, i, j) ==
    LET hi == IF j > Len(s) THEN Len(s) ELSE j
    IN  IF i >= hi THEN Empty ELSE SubSeq(s, i + 1, hi)

\* s[i:]
SliceFrom(s, i) == Slice(s, i, Len(s))

MinOf(S) == CHOOSE x \in S : \A y \in S : x <= y

MaxOf(S) == CHOOSE x \in S : \A y \in S : x >= y

\* s.find(c, start, end): 0-based index of the first c in s[start:end], or -1
FindIn(s, c, start, end) ==
    LET hits == {i \in start..(end - 1) : i < Len(s) /\ s[i + 1] = c}
    IN  IF hits = {} THEN -1 ELSE MinOf(hits)

\* s.find(c)
Find(s, c) == FindIn(s, c, 0, Len(s))

\* s.rfind(c)
RFind(s, c) ==
    LET hits == {i \in 0..(Len(s) - 1) : s[i + 1] = c}
    IN  IF hits = {} THEN -1 ELSE MaxOf(hits)

\* c in s
Contains(s, c) == \E i \in 1..Len(s) : s[i] = c

Digits == {"0", "1", "2", "3", "4", "5", "6", "7", "8", "9"}

\* s.isdigit(): non-empty and every character a digit
IsDigit(s) == Len(s) > 0 /\ \A i \in 1..Len(s) : s[i] \in Digits

UpperLetters ==
    <<"A", "B", "C", "D", "E", "F", "G", "H", "I", "J", "K", "L", "M",
      "N", "O", "P", "Q", "R", "S", "T", "U", "V", "W", "X", "Y", "Z">>

LowerLetters ==
    <<"a", "b", "c", "d", "e", "f", "g", "h", "i", "j", "k", "l", "m",
      "n", "o", "p", "q", "r", "s", "t", "u", "v", "w", "x", "y", "z">>

LowerChar(c) ==
    IF \E i \in 1..26 : UpperLetters[i] = c
    THEN LowerLetters[CHOOSE i \in 1..26 : UpperLetters[i] = c]
    ELSE c

\* s.lower()
Lower(s) == [i \in 1..Len(s) |-> LowerChar(s[i])]

\* the length of the longest prefix of s with no character of stop:
\* what a greedy negated class [^...]* consumes
RunLen(s, stop) ==
    LET hits == {i \in 1..Len(s) : s[i] \in stop}
    IN  IF hits = {} THEN Len(s) ELSE MinOf(hits) - 1

\* s.startswith(p)
StartsWith(s, p) == Len(s) >= Len(p) /\ SubSeq(s, 1, Len(p)) = p

-----------------------------------------------------------------------------
(* The URL tuple *)

URLTuple(scheme, userinfo, host, port, path, query, fragment) ==
    [scheme |-> scheme, userinfo |-> userinfo, host |-> host, port |-> port,
     path |-> path, query |-> query, fragment |-> fragment]

EmptyURL == URLTuple(Empty, Empty, Empty, Empty, Empty, Empty, Empty)

\* \#?(.*): the query is r4 up to its first "#", the fragment what follows it
SplitFragment(scheme, userinfo, host, path, r4) ==
    LET n5 == RunLen(r4, {"#"})
        r5 == SliceFrom(r4, n5)
    IN  URLTuple(scheme, userinfo, host, Empty, path, SubSeq(r4, 1, n5),
                 IF StartsWith(r5, <<"#">>) THEN SliceFrom(r5, 1) ELSE r5)

\* \??([^\#]*): an optional "?" before the query
SplitQuery(scheme, userinfo, host, path, r3) ==
    SplitFragment(scheme, userinfo, host, path,
                  IF StartsWith(r3, <<"?">>) THEN SliceFrom(r3, 1) ELSE r3)

\* ([^?\#]*): the path
SplitPath(scheme, userinfo, host, r2) ==
    LET n4 == RunLen(r2, {"?", "#"})
    IN  SplitQuery(scheme, userinfo, host, SubSeq(r2, 1, n4), SliceFrom(r2, n4))

\* ([^/?\#]*)(): host:port, and an empty port group; without an authority the
\* path starts at r1
SplitHost(scheme, hasAuth, r1, userinfo, a1) ==
    LET n3 == RunLen(a1, {"/", "?", "#"})
    IN  SplitPath(scheme, userinfo, SubSeq(a1, 1, n3),
                  IF hasAuth THEN SliceFrom(a1, n3) ELSE r1)

\* (?:([^/?\#@]*)@)?: the userinfo, when an "@" ends the run
SplitUserinfo(scheme, hasAuth, r1, a0) ==
    LET n2      == RunLen(a0, {"/", "?", "#", "@"})
        hasUser == hasAuth /\ n2 < Len(a0) /\ a0[n2 + 1] = "@"
    IN  SplitHost(scheme, hasAuth, r1,
                  IF hasUser THEN SubSeq(a0, 1, n2) ELSE Empty,
                  IF hasUser THEN SliceFrom(a0, n2 + 1) ELSE a0)

\* (?://...)?: the authority block, when "//" follows the scheme
SplitAuthority(scheme, r1) ==
    SplitUserinfo(scheme, StartsWith(r1, <<"/", "/">>), r1,
                  IF StartsWith(r1, <<"/", "/">>) THEN SliceFrom(r1, 2) ELSE Empty)

\* (?:([^:/?#]+):)?: the scheme, when a ":" ends a non-empty run of n1
SplitScheme(url, n1) ==
    LET hasSch == n1 >= 1 /\ n1 < Len(url) /\ url[n1 + 1] = ":"
    IN  SplitAuthority(IF hasSch THEN SubSeq(url, 1, n1) ELSE Empty,
                       IF hasSch THEN SliceFrom(url, n1 + 1) ELSE url)

\* URL._split_re(url).groups(''): the seven groups, port always ''
SplitRe(url) == SplitScheme(url, RunLen(url, {":", "/", "?", "#"}))

\* the tuple URL.__new__ returns: scheme and host lowercased
Canon(scheme, userinfo, host, port, path, query, fragment) ==
    URLTuple(Lower(scheme), userinfo, Lower(host), port, path, query, fragment)

\* the groups g with host and port re-split at the host's last ":" when split
SplitAt(g, split) ==
    Canon(g.scheme, g.userinfo,
          IF split THEN Slice(g.host, 0, RFind(g.host, ":")) ELSE g.host,
          IF split THEN SliceFrom(g.host, RFind(g.host, ":") + 1) ELSE g.port,
          g.path, g.query, g.fragment)

\* a port split made only when the suffix is all digits
SplitPortDigitsOnly(g) ==
    SplitAt(g, RFind(g.host, ":") >= 0
               /\ IsDigit(SliceFrom(g.host, RFind(g.host, ":") + 1)))

\* URL.__new__ lines 55-59: split the port off when the text after the last
\* ":" is empty or all digits
SplitPort(g) ==
    SplitAt(g, RFind(g.host, ":") >= 0
               /\ (SliceFrom(g.host, RFind(g.host, ":") + 1) = Empty
                   \/ IsDigit(SliceFrom(g.host, RFind(g.host, ":") + 1))))

\* URL.__new__(cls, url): the branch "url is not None"
NewFromString(url) == SplitPort(SplitRe(url))

\* a constructor that never inserts the leading "/"
NewFromPartsAsGiven(scheme, userinfo, host, port, path, query, fragment) ==
    Canon(scheme, userinfo, host, port, path, query, fragment)

\* URL.__new__(cls, None, ...): the branch "url is None"
NewFromParts(scheme, userinfo, host, port, path, query, fragment) ==
    LET fix == (userinfo # Empty \/ host # Empty \/ port # Empty)
               /\ path # Empty /\ path[1] # "/"
    IN  Canon(scheme, userinfo, host, port,
              IF fix THEN <<"/">> \o path ELSE path, query, fragment)

-----------------------------------------------------------------------------
(* Serialization *)

\* URL.authority
Authority(u) ==
    LET base0 == u.host
        base1 == IF u.port # Empty THEN base0 \o <<":">> \o u.port
                 ELSE IF Contains(base0, ":")
                         /\ IsDigit(SliceFrom(base0, RFind(base0, ":") + 1))
                      THEN base0 \o <<":">>
                      ELSE base0
    IN  IF u.userinfo # Empty THEN u.userinfo \o <<"@">> \o base1 ELSE base1

\* URL.full_path
FullPath(u) ==
    LET p1 == IF u.query # Empty THEN u.path \o <<"?">> \o u.query ELSE u.path
    IN  IF u.fragment # Empty THEN p1 \o <<"#">> \o u.fragment ELSE p1

\* a serializer that escapes a ":" at any position of the first segment
AsStringColonAnywhere(u) ==
    LET auth       == Authority(u)
        column_idx == Find(u.path, ":")
        base ==
            IF auth # Empty \/ Slice(u.path, 0, 2) = <<"/", "/">>
            THEN <<"/", "/">> \o auth
            ELSE IF u.scheme = Empty /\ u.path # Empty
                    /\ column_idx >= 0
                    /\ FindIn(u.path, "/", 0, column_idx) < 0
                 THEN <<".", "/">>
                 ELSE auth
        base2 == IF u.scheme # Empty THEN u.scheme \o <<":">> \o base ELSE base
    IN  base2 \o FullPath(u)

\* URL.__unicode__ / as_string / __str__
AsString(u) ==
    LET auth       == Authority(u)
        column_idx == Find(u.path, ":")
        base ==
            IF auth # Empty \/ Slice(u.path, 0, 2) = <<"/", "/">>
            THEN <<"/", "/">> \o auth
            ELSE IF u.scheme = Empty /\ u.path # Empty
                    /\ column_idx > 0
                    /\ FindIn(u.path, "/", 0, column_idx) < 0
                 THEN <<".", "/">>
                 ELSE auth
        base2 == IF u.scheme # Empty THEN u.scheme \o <<":">> \o base ELSE base
    IN  base2 \o FullPath(u)

-----------------------------------------------------------------------------
(* Validation *)

LowerSet == {LowerLetters[i] : i \in 1..26}

UpperSet == {UpperLetters[i] : i \in 1..26}

\* every character of s is in class, and s is not empty: ^[class]+ to the end
AllIn(s, class) == Len(s) > 0 /\ \A i \in 1..Len(s) : s[i] \in class

\* every character of s is outside class, and s is not empty: ^[^class]+
NoneIn(s, class) == Len(s) > 0 /\ \A i \in 1..Len(s) : s[i] \notin class

\* Python's "$" (no MULTILINE) matches at the end of the string and also just
\* before a newline that ends the string: "^P$" matches s when P takes all of
\* s, or all of s but its final newline.  These are the texts P may take.
UpToDollar(s) ==
    {s} \cup (IF Len(s) > 0 /\ s[Len(s)] = NL
              THEN {SubSeq(s, 1, Len(s) - 1)} ELSE {})

SchemeBody(s) ==
    /\ Len(s) > 0
    /\ s[1] \in LowerSet
    /\ \A i \in 2..Len(s) : s[i] \in LowerSet \cup Digits \cup {"+", "-", "."}

\* URL._valid_scheme_re
ValidScheme(s) == \E t \in UpToDollar(s) : SchemeBody(t)

UserinfoBody(s) == NoneIn(s, {"/", "?", "#", "@", "[", "]"})

\* URL._valid_userinfo_re
ValidUserinfo(s) == \E t \in UpToDollar(s) : UserinfoBody(t)

\* a registered-name class that also excludes the space
RegNameBodyNoSpace(s) == NoneIn(s, {"/", "?", "#", "@", "[", "]", ":", " "})

RegNameBody(s) == NoneIn(s, {"/", "?", "#", "@", "[", "]", ":"})

\* URL._valid_reg_name_re
ValidRegName(s) == \E t \in UpToDollar(s) : RegNameBody(t)

PathBody(s) == NoneIn(s, {"?", "#"})

\* URL._valid_path_re
ValidPath(s) == \E t \in UpToDollar(s) : PathBody(t)

QueryBody(s) == NoneIn(s, {"#"})

\* URL._valid_query_re
ValidQuery(s) == \E t \in UpToDollar(s) : QueryBody(t)

\* [a-f0-9] under IGNORECASE
HexSet == Digits \cup {"a", "b", "c", "d", "e", "f", "A", "B", "C", "D", "E", "F"}

\* [a-z0-9\-._~!$&'()*,;=:] under IGNORECASE
FutureSet ==
    LowerSet \cup UpperSet \cup Digits \cup
    {"-", ".", "_", "~", "!", "$", "&", "'", "(", ")", "*", ",", ";", "=", ":"}

\* v[a-f0-9]+\.[a-z0-9\-._~!$&'()*,;=:]+  |  [a-f0-9:\.]+
IpLiteralBody(s) ==
    \/ /\ Len(s) >= 4
       /\ s[1] \in {"v", "V"}
       /\ \E k \in 3..(Len(s) - 1) :
              /\ AllIn(SubSeq(s, 2, k - 1), HexSet)
              /\ s[k] = "."
              /\ AllIn(SubSeq(s, k + 1, Len(s)), FutureSet)
    \/ AllIn(s, HexSet \cup {":", "."})

\* URL._valid_ip_literal_re
ValidIpLiteral(s) == \E t \in UpToDollar(s) : IpLiteralBody(t)

NoError == "NoError"

\* URL.validate: the error it raises, or NoError when it returns self
Validate(u) ==
    IF u.scheme # Empty /\ ~ValidScheme(u.scheme) THEN "InvalidScheme"
    ELSE IF u.userinfo # Empty /\ ~ValidUserinfo(u.userinfo) THEN "InvalidUserinfo"
    ELSE IF u.host # Empty
            /\ IF Slice(u.host, 0, 1) = <<"[">>
                  /\ SliceFrom(u.host, Len(u.host) - 1) = <<"]">>
               THEN ~ValidIpLiteral(Slice(u.host, 1, Len(u.host) - 1))
               ELSE ~ValidRegName(u.host)
         THEN "InvalidHost"
    ELSE IF u.path # Empty /\ ~ValidPath(u.path) THEN "InvalidPath"
    ELSE IF u.query # Empty /\ ~ValidQuery(u.query) THEN "InvalidQuery"
    ELSE NoError

-----------------------------------------------------------------------------
(* Manipulation *)

\* the output buffer without its last segment and the "/" before it
DropLastSegment(out) ==
    LET i == RFind(out, "/") IN IF i < 0 THEN Empty ELSE Slice(out, 0, i)

RECURSIVE DotSegments(_, _)
\* RFC 3986 5.2.4 over an input buffer and an output buffer
DotSegments(in, out) ==
    IF in = Empty THEN out
    ELSE IF StartsWith(in, <<".", ".", "/">>) THEN DotSegments(SliceFrom(in, 3), out)
    ELSE IF StartsWith(in, <<".", "/">>) THEN DotSegments(SliceFrom(in, 2), out)
    ELSE IF StartsWith(in, <<"/", ".", "/">>) THEN DotSegments(SliceFrom(in, 2), out)
    ELSE IF in = <<"/", ".">> THEN DotSegments(<<"/">>, out)
    ELSE IF StartsWith(in, <<"/", ".", ".", "/">>)
         THEN DotSegments(SliceFrom(in, 3), DropLastSegment(out))
    ELSE IF in = <<"/", ".", ".">> THEN DotSegments(<<"/">>, DropLastSegment(out))
    ELSE IF in = <<".">> \/ in = <<".", ".">> THEN DotSegments(Empty, out)
    ELSE LET nxt == FindIn(in, "/", 1, Len(in))
             k   == IF nxt < 0 THEN Len(in) ELSE nxt
         IN  DotSegments(SliceFrom(in, k), out \o Slice(in, 0, k))

\* utils.remove_dot_segments
remove_dot_segments(path) == DotSegments(path, Empty)

\* a merge that keeps the whole base path, last segment included
WholePath(s) == s

\* s.rpartition('/'): parts[0] + parts[1], the text up to and including the
\* last "/" ('' when there is none)
UpToLastSlash(s) == Slice(s, 0, RFind(s, "/") + 1)

\* URL.__add__
Add(base, ref) ==
    LET inheritAuth == ref.scheme = Empty
                       /\ ref.host = Empty /\ ref.userinfo = Empty /\ ref.port = Empty
        scheme   == IF ref.scheme = Empty THEN base.scheme ELSE ref.scheme
        userinfo == IF inheritAuth THEN base.userinfo ELSE ref.userinfo
        host     == IF inheritAuth THEN base.host ELSE ref.host
        port     == IF inheritAuth THEN base.port ELSE ref.port
        path     == IF ~inheritAuth THEN ref.path
                    ELSE IF ref.path = Empty THEN base.path
                    ELSE IF ref.path[1] # "/" THEN UpToLastSlash(base.path) \o ref.path
                    ELSE ref.path
        query    == IF inheritAuth /\ ref.path = Empty /\ ref.query = Empty
                    THEN base.query ELSE ref.query
    IN  NewFromParts(scheme, userinfo, host, port,
                     remove_dot_segments(path), query, ref.fragment)

\* an optional keyword argument: None, or a supplied string
None == [given |-> FALSE, val |-> Empty]

Some(v) == [given |-> TRUE, val |-> v]

\* Python truthiness of an optional string: not None and not ''
Truthy(a) == a.given /\ a.val # Empty

ReplaceArgs(scheme, userinfo, host, port, path, query, fragment, authority, full_path) ==
    [scheme |-> scheme, userinfo |-> userinfo, host |-> host, port |-> port,
     path |-> path, query |-> query, fragment |-> fragment,
     authority |-> authority, full_path |-> full_path]

\* URL.replace: whether it raises TypeError
ReplaceRaises(a) ==
    \/ a.authority.given /\ (Truthy(a.host) \/ Truthy(a.userinfo) \/ Truthy(a.port))
    \/ a.full_path.given /\ (Truthy(a.path) \/ Truthy(a.query) \/ Truthy(a.fragment))

Pick(old, a) == IF a.given THEN a.val ELSE old

\* URL.replace after its two shortcut parses: au is URL('//' + authority),
\* fp is URL(full_path)
ReplaceWith(u, a, au, fp) ==
    LET userinfo == IF a.authority.given THEN Some(au.userinfo) ELSE a.userinfo
        host     == IF a.authority.given THEN Some(au.host) ELSE a.host
        port     == IF a.authority.given THEN Some(au.port) ELSE a.port
        path     == IF a.full_path.given THEN Some(fp.path) ELSE a.path
        query    == IF a.full_path.given THEN Some(fp.query) ELSE a.query
        fragment == IF a.full_path.given THEN Some(fp.fragment) ELSE a.fragment
    IN  NewFromParts(Pick(u.scheme, a.scheme), Pick(u.userinfo, userinfo),
                     Pick(u.host, host), Pick(u.port, port), Pick(u.path, path),
                     Pick(u.query, query), Pick(u.fragment, fragment))

\* URL.replace: the URL it returns when it does not raise
Replace(u, a) ==
    ReplaceWith(u, a, NewFromString(<<"/", "/">> \o a.authority.val),
                NewFromString(a.full_path.val))

\* x or y on strings
Or(x, y) == IF x # Empty THEN x ELSE y

\* a setdefault in which a non-empty default wins over the URL's component
SetDefaultDefaultsWin(u, d) ==
    NewFromParts(Or(d.scheme, u.scheme), Or(d.userinfo, u.userinfo),
                 Or(d.host, u.host), Or(d.port, u.port), Or(d.path, u.path),
                 Or(d.query, u.query), Or(d.fragment, u.fragment))

\* URL.setdefault; d holds the seven defaults
SetDefault(u, d) ==
    NewFromParts(Or(u.scheme, d.scheme), Or(u.userinfo, d.userinfo),
                 Or(u.host, d.host), Or(u.port, d.port), Or(u.path, d.path),
                 Or(u.query, d.query), Or(u.fragment, d.fragment))

-----------------------------------------------------------------------------
(* CachedURL *)

_cache_size == 20

\* a cache that never clears
CacheAfterNoClear(c, url) ==
    IF url \in DOMAIN c THEN c
    ELSE [t \in DOMAIN c \cup {url} |->
             IF t = url THEN NewFromString(url) ELSE c[t]]

\* CachedURL.__new__(cls, url) with url not None: the mapping afterwards
CacheAfter(c, url) ==
    IF url \in DOMAIN c THEN c
    ELSE LET c1 == IF Cardinality(DOMAIN c) >= _cache_size
                   THEN [t \in {} |-> EmptyURL] ELSE c
         IN  [t \in DOMAIN c1 \cup {url} |->
                 IF t = url THEN NewFromString(url) ELSE c1[t]]

\* CachedURL.__new__(cls, url) with url not None: the URL it returns
CacheGet(c, url) == IF url \in DOMAIN c THEN c[url] ELSE NewFromString(url)

-----------------------------------------------------------------------------
(* States and inputs common to the specifications *)

NoArgs == <<>>

EmptyCache == [t \in {} |-> EmptyURL]

Blank ==
    /\ op = "init"
    /\ inp = Empty
    /\ self = EmptyURL
    /\ args = NoArgs
    /\ res = EmptyURL
    /\ str = Empty
    /\ err = NoError
    /\ other = EmptyURL
    /\ cache = EmptyCache

\* all strings over alphabet of length at most n
Strings(alphabet, n) == UNION {[1..k -> alphabet] : k \in 0..n}

\* URL.has_authority
HasAuthority(u) == u.host # Empty \/ u.userinfo # Empty \/ u.port # Empty

-----------------------------------------------------------------------------
(* SpecRT: parse a text, serialize the URL, parse the serialization *)

MaxLen == 5

RTAlphabet == {"/", ":", "@", "a", "8", "B", "?", "#"}

RTParse ==
    /\ op = "init"
    /\ \E s \in Strings(RTAlphabet, MaxLen) :
           /\ inp' = s
           /\ res' = NewFromString(s)
    /\ op' = "parse"
    /\ UNCHANGED <<self, args, str, err, other, cache>>

RTStr ==
    /\ op = "parse"
    /\ str' = AsString(res)
    /\ op' = "str"
    /\ UNCHANGED <<inp, self, args, res, err, other, cache>>

RTReparse ==
    /\ op = "str"
    /\ other' = NewFromString(str)
    /\ op' = "reparse"
    /\ UNCHANGED <<inp, self, args, res, str, err, cache>>

NextRT == RTParse \/ RTStr \/ RTReparse

SpecRT == Blank /\ [][NextRT]_vars

\* the text before the first "/" of a path
FirstSegment(path) == SubSeq(path, 1, RunLen(path, {"/"}))

\* serializer step 2 would insert "//" before a path that has no authority
NeedsSlashEscape(u) == ~HasAuthority(u) /\ StartsWith(u.path, <<"/", "/">>)

\* serializer step 3 would insert "./" before a path
NeedsDotEscape(u) ==
    /\ u.scheme = Empty
    /\ ~HasAuthority(u)
    /\ Contains(FirstSegment(u.path), ":")

\* C1: for every text s whose URL needs neither the "//" escape nor the "./"
\* escape, parse(to_string(parse(s))) equals parse(s) in all seven
\* components.
C1_RoundTrip ==
    (op = "reparse" /\ ~NeedsSlashEscape(res) /\ ~NeedsDotEscape(res))
        => other = res

\* the positions of the ":" of a host:port candidate
Colons(cand) == {i \in 1..Len(cand) : cand[i] = ":"}

\* the text after the rightmost ":" of a candidate that has one
Suffix(cand) == SubSeq(cand, MaxOf(Colons(cand)) + 1, Len(cand))

\* u's host and port are the candidate split at its rightmost ":" when split
\* holds, and the whole candidate and an empty port otherwise
SplitsBy(split, cand, u) ==
    IF split
    THEN /\ u.host = Lower(SubSeq(cand, 1, MaxOf(Colons(cand)) - 1))
         /\ u.port = Suffix(cand)
    ELSE u.host = Lower(cand) /\ u.port = Empty

NonEmptyDigits(s) == s # Empty /\ \A i \in 1..Len(s) : s[i] \in Digits

EmptyOrDigits(s) == \A i \in 1..Len(s) : s[i] \in Digits

\* C5 as stated: the candidate is split at its rightmost ":" if and only if
\* the text after it is non-empty and all digits; otherwise the whole
\* candidate, ":" included, is the host and the port is empty.
C5_SplitDigitsOnly ==
    op = "parse" =>
        LET cand == SplitRe(inp).host
        IN  SplitsBy(Colons(cand) # {} /\ NonEmptyDigits(Suffix(cand)), cand, res)

\* C5 amended: the candidate is split at its rightmost ":" if and only if the
\* text after it is empty or all digits (so "host:" gives host "host" and an
\* empty port); otherwise the whole candidate is the host and the port is
\* empty.  The host is stored lowercased.
C5_SplitEmptyOrDigits ==
    op = "parse" =>
        LET cand == SplitRe(inp).host
        IN  SplitsBy(Colons(cand) # {} /\ EmptyOrDigits(Suffix(cand)), cand, res)

\* C5 witness: "//a:" has been parsed and the ":" is gone from the host
C5_Witness ==
    /\ op = "parse"
    /\ inp = <<"/", "/", "a", ":">>
    /\ res.host = <<"a">>
    /\ res.port = Empty

-----------------------------------------------------------------------------
(* SpecBuilt: build a URL from components (or parse one of the validation  *)
(* texts), then serialize it or validate it                                *)

SchemeSet == {Empty, <<"a">>, <<"1">>, <<"a", NL>>}

UserinfoSet == {Empty, <<"u">>, <<"[">>}

HostSet ==
    {Empty, <<"h">>, <<"h", ":">>, <<"h", ":", "8">>, <<"[", ":", "]">>,
     <<"[", "g", "]">>, <<"[", ":", NL, "]">>}

PortSet == {Empty, <<"8">>}

PathSet ==
    {Empty, <<"p">>, <<"/", "p">>, <<"/", "/", "p">>, <<":", "p">>,
     <<":", "p", ":">>, <<"p", ":">>, <<"p", "/", ":">>, <<"p", "?">>}

QuerySet == {Empty, <<"q">>, <<"#">>}

FragmentSet == {Empty, <<"f">>, <<"#">>}

\* 'http://ex ample.com/'
TextSpaceInHost ==
    <<"h", "t", "t", "p", ":", "/", "/", "e", "x", " ", "a", "m", "p", "l",
      "e", ".", "c", "o", "m", "/">>

\* 'ftp://EX.com/a b'
TextSpaceInPath ==
    <<"f", "t", "p", ":", "/", "/", "E", "X", ".", "c", "o", "m", "/", "a",
      " ", "b">>

\* 'https://user:pw@host:8080/p?q#f'
TextWellFormed ==
    <<"h", "t", "t", "p", "s", ":", "/", "/", "u", "s", "e", "r", ":", "p",
      "w", "@", "h", "o", "s", "t", ":", "8", "0", "8", "0", "/", "p", "?",
      "q", "#", "f">>

ValidateTexts == {TextSpaceInHost, TextSpaceInPath, TextWellFormed}

BBuild ==
    /\ op = "init"
    /\ \E scheme \in SchemeSet, userinfo \in UserinfoSet, host \in HostSet,
          port \in PortSet, path \in PathSet, query \in QuerySet,
          fragment \in FragmentSet :
           res' = NewFromParts(scheme, userinfo, host, port, path, query, fragment)
    /\ op' = "build"
    /\ UNCHANGED <<inp, self, args, str, err, other, cache>>

BParse ==
    /\ op = "init"
    /\ \E t \in ValidateTexts :
           /\ inp' = t
           /\ res' = NewFromString(t)
    /\ op' = "parse"
    /\ UNCHANGED <<self, args, str, err, other, cache>>

BStr ==
    /\ op \in {"build", "parse"}
    /\ self' = res
    /\ str' = AsString(res)
    /\ op' = "str"
    /\ UNCHANGED <<inp, args, res, err, other, cache>>

BValidate ==
    /\ op \in {"build", "parse"}
    /\ self' = res
    /\ err' = Validate(res)
    /\ res' = res
    /\ op' = "validate"
    /\ UNCHANGED <<inp, args, str, other, cache>>

NextBuilt == BBuild \/ BParse \/ BStr \/ BValidate

SpecBuilt == Blank /\ [][NextBuilt]_vars

\* the serialization of u: the optional "scheme:", then "//" + authority or,
\* when dotEscape holds, "./", or nothing, then the full-path
Serialized(dotEscape, u) ==
    LET lead == IF u.scheme # Empty THEN u.scheme \o <<":">> ELSE Empty
        mid  == IF Authority(u) # Empty \/ StartsWith(u.path, <<"/", "/">>)
                THEN <<"/", "/">> \o Authority(u)
                ELSE IF dotEscape THEN <<".", "/">>
                ELSE Empty
    IN  lead \o mid \o FullPath(u)

ColonAnywhere(u) ==
    u.scheme = Empty /\ u.path # Empty /\ Contains(FirstSegment(u.path), ":")

ColonNotFirst(u) ==
    /\ u.scheme = Empty
    /\ u.path # Empty
    /\ Contains(FirstSegment(u.path), ":")
    /\ u.path[1] # ":"

\* C6 as stated: "//" + authority is prefixed exactly when the authority is
\* non-empty or the path starts with "//"; otherwise "./" is prefixed exactly
\* when the scheme is empty, the path is non-empty and its first segment
\* contains a ":" at any position, position 0 included; otherwise nothing is
\* inserted.
C6_EscapeColonAnywhere ==
    op = "str" => str = Serialized(ColonAnywhere(self), self)

\* C6 amended: as stated, except that "./" is prefixed exactly when the scheme
\* is empty, the path is non-empty and its first segment contains a ":" but
\* does not begin with one (a ":" at position 0 is not escaped).
C6_EscapeColonNotFirst ==
    op = "str" => str = Serialized(ColonNotFirst(self), self)

\* C6 witness: a scheme-less, authority-less path ":p" was serialized as is
C6_Witness ==
    /\ op = "str"
    /\ self.scheme = Empty
    /\ ~HasAuthority(self)
    /\ self.path = <<":", "p">>
    /\ str = FullPath(self)

\* the component grammars of the validator, as full matches
SchemeGrammar(s) ==
    /\ s[1] \in LowerSet
    /\ \A i \in 2..Len(s) : s[i] \in LowerSet \cup Digits \cup {"+", ".", "-"}

UserinfoGrammar(s) == \A i \in 1..Len(s) : s[i] \notin {"/", "?", "#", "@", "[", "]"}

HostGrammar(s) ==
    IF s[1] = "[" /\ s[Len(s)] = "]"
    THEN IpLiteralBody(SubSeq(s, 2, Len(s) - 1))
    ELSE \A i \in 1..Len(s) : s[i] \notin {"/", "?", "#", "@", "[", "]", ":"}

PathGrammar(s) == \A i \in 1..Len(s) : s[i] \notin {"?", "#"}

QueryGrammar(s) == \A i \in 1..Len(s) : s[i] \notin {"#"}

\* the error kind of the first component, in the order scheme, userinfo,
\* host, path, query, that is non-empty and violates its grammar
FirstViolation(u) ==
    IF u.scheme # Empty /\ ~SchemeGrammar(u.scheme) THEN "InvalidScheme"
    ELSE IF u.userinfo # Empty /\ ~UserinfoGrammar(u.userinfo) THEN "InvalidUserinfo"
    ELSE IF u.host # Empty /\ ~HostGrammar(u.host) THEN "InvalidHost"
    ELSE IF u.path # Empty /\ ~PathGrammar(u.path) THEN "InvalidPath"
    ELSE IF u.query # Empty /\ ~QueryGrammar(u.query) THEN "InvalidQuery"
    ELSE NoError

\* C3: validate reports exactly the error kind of the first component, in the
\* order scheme, userinfo, host, path, query, that violates its grammar; empty
\* components and the fragment never fail; with no violation it returns the
\* URL with all seven components unchanged.
C3_FirstViolation ==
    op = "validate" => /\ err = FirstViolation(self)
                       /\ err = NoError => res = self

\* C4 as stated: the text with a space in the host fails with InvalidHost, the
\* text with a space in the path fails with InvalidPath, the well-formed text
\* validates and keeps its components.
C4_SpacesRejected ==
    op = "validate" =>
        /\ inp = TextSpaceInHost => err = "InvalidHost"
        /\ inp = TextSpaceInPath => err = "InvalidPath"
        /\ inp = TextWellFormed =>
               /\ err = NoError
               /\ res = URLTuple(<<"h", "t", "t", "p", "s">>,
                                 <<"u", "s", "e", "r", ":", "p", "w">>,
                                 <<"h", "o", "s", "t">>, <<"8", "0", "8", "0">>,
                                 <<"/", "p">>, <<"q">>, <<"f">>)

\* C4 amended: all three texts validate and keep their components: a space is
\* in none of the excluded character sets of host and path.
C4_SpacesAccepted ==
    op = "validate" =>
        /\ inp = TextSpaceInHost =>
               /\ err = NoError
               /\ res = URLTuple(<<"h", "t", "t", "p">>, Empty,
                                 <<"e", "x", " ", "a", "m", "p", "l", "e", ".",
                                   "c", "o", "m">>,
                                 Empty, <<"/">>, Empty, Empty)
        /\ inp = TextSpaceInPath =>
               /\ err = NoError
               /\ res = URLTuple(<<"f", "t", "p">>, Empty,
                                 <<"e", "x", ".", "c", "o", "m">>, Empty,
                                 <<"/", "a", " ", "b">>, Empty, Empty)
        /\ inp = TextWellFormed =>
               /\ err = NoError
               /\ res = URLTuple(<<"h", "t", "t", "p", "s">>,
                                 <<"u", "s", "e", "r", ":", "p", "w">>,
                                 <<"h", "o", "s", "t">>, <<"8", "0", "8", "0">>,
                                 <<"/", "p">>, <<"q">>, <<"f">>)

\* C4 witness: the text with a space in its host has been validated
C4_Witness ==
    /\ op = "validate"
    /\ inp = TextSpaceInHost
    /\ Contains(self.host, " ")
    /\ err = NoError

-----------------------------------------------------------------------------
(* SpecComb: build a URL from components, then apply setdefault or replace *)

MaxSupplied == 3

\* the URLs the combinators are applied to
CombSelves ==
    {NewFromParts(scheme, userinfo, host, Empty, path, query, Empty) :
        scheme \in {Empty, <<"s">>}, userinfo \in {Empty, <<"u">>},
        host \in {Empty, <<"h">>}, path \in {Empty, <<"p">>, <<"/", "p">>},
        query \in {Empty, <<"q">>}}

\* the defaults handed to setdefault
CombDefaults ==
    [scheme : {Empty, <<"T">>}, userinfo : {Empty, <<"v">>},
     host : {Empty, <<"I">>}, port : {Empty, <<"9">>},
     path : {Empty, <<"r">>}, query : {Empty, <<"k">>},
     fragment : {Empty, <<"g">>}]

Optional(v) == {None, Some(Empty), Some(v)}

Supplied(a) ==
    Cardinality({f \in DOMAIN a : a[f].given})

\* the keyword arguments handed to replace: at most MaxSupplied of them given
CombReplaceArgs ==
    {a \in [scheme : Optional(<<"T">>), userinfo : Optional(<<"v">>),
            host : Optional(<<"I">>), port : Optional(<<"9">>),
            path : Optional(<<"r">>), query : Optional(<<"k">>),
            fragment : Optional(<<"g">>),
            authority : Optional(<<"w", "@", "J", ":", "7">>),
            full_path : Optional(<<"r", "?", "k", "#", "g">>)] :
        Supplied(a) <= MaxSupplied}

CBuild ==
    /\ op = "init"
    /\ \E u \in CombSelves : res' = u
    /\ op' = "build"
    /\ UNCHANGED <<inp, self, args, str, err, other, cache>>

CSetDefault ==
    /\ op = "build"
    /\ \E d \in CombDefaults :
           /\ args' = d
           /\ res' = SetDefault(res, d)
    /\ self' = res
    /\ op' = "setdefault"
    /\ UNCHANGED <<inp, str, err, other, cache>>

CReplace ==
    /\ op = "build"
    /\ \E a \in CombReplaceArgs :
           /\ args' = a
           /\ IF ReplaceRaises(a)
              THEN err' = "TypeError" /\ res' = res
              ELSE err' = NoError /\ res' = Replace(res, a)
    /\ self' = res
    /\ op' = "replace"
    /\ UNCHANGED <<inp, str, other, cache>>

NextComb == CBuild \/ CSetDefault \/ CReplace

SpecComb == Blank /\ [][NextComb]_vars

\* the first non-empty of a component and its default
FirstNonEmpty(x, d) == IF x # Empty THEN x ELSE d

\* C7 as stated: each of the seven components of u.setdefault(...) is u's
\* component when that is non-empty and the supplied default otherwise; a
\* non-empty path of u is returned unchanged even when a default fills an
\* empty authority.
C7_PerFieldMerge ==
    op = "setdefault" =>
        /\ res.scheme = FirstNonEmpty(self.scheme, args.scheme)
        /\ res.userinfo = FirstNonEmpty(self.userinfo, args.userinfo)
        /\ res.host = FirstNonEmpty(self.host, args.host)
        /\ res.port = FirstNonEmpty(self.port, args.port)
        /\ res.path = FirstNonEmpty(self.path, args.path)
        /\ res.query = FirstNonEmpty(self.query, args.query)
        /\ res.fragment = FirstNonEmpty(self.fragment, args.fragment)

\* C7 amended: each component of u.setdefault(...) is the first non-empty of
\* u's component and the supplied default, then canonicalized as by build:
\* scheme and host are lowercased, and when the merged userinfo, host or port
\* is non-empty and the merged path is non-empty and does not start with "/",
\* the path gets a leading "/".
C7_PerFieldMergeCanonical ==
    op = "setdefault" =>
        LET path == FirstNonEmpty(self.path, args.path)
            auth == \/ FirstNonEmpty(self.userinfo, args.userinfo) # Empty
                    \/ FirstNonEmpty(self.host, args.host) # Empty
                    \/ FirstNonEmpty(self.port, args.port) # Empty
        IN  /\ res.scheme = Lower(FirstNonEmpty(self.scheme, args.scheme))
            /\ res.userinfo = FirstNonEmpty(self.userinfo, args.userinfo)
            /\ res.host = Lower(FirstNonEmpty(self.host, args.host))
            /\ res.port = FirstNonEmpty(self.port, args.port)
            /\ res.path = IF auth /\ path # Empty /\ path[1] # "/"
                          THEN <<"/">> \o path ELSE path
            /\ res.query = FirstNonEmpty(self.query, args.query)
            /\ res.fragment = FirstNonEmpty(self.fragment, args.fragment)

\* C7 witness: a default host filled the empty authority of a URL with the
\* relative path "p", and the path came back as "/p"
C7_Witness ==
    /\ op = "setdefault"
    /\ ~HasAuthority(self)
    /\ self.path = <<"p">>
    /\ args.host # Empty
    /\ res.path = <<"/", "p">>

\* a shortcut is supplied together with one of its constituent fields
Conflict(a) ==
    \/ a.authority.given /\ (a.host.given \/ a.userinfo.given \/ a.port.given)
    \/ a.full_path.given /\ (a.path.given \/ a.query.given \/ a.fragment.given)

\* C8: replace fails with a type error whenever the authority shortcut comes
\* with any supplied (non-None, possibly empty) host, userinfo or port, or the
\* full-path shortcut with any supplied path, query or fragment, and does not
\* fail otherwise.
C8_ConflictRaises ==
    op = "replace" => (err = "TypeError" <=> Conflict(args))

-----------------------------------------------------------------------------
(* SpecJoin: parse a base and a reference, join them, serialize the result *)

\* 'http://a/b/c/d;p?q'
RfcBase ==
    <<"h", "t", "t", "p", ":", "/", "/", "a", "/", "b", "/", "c", "/", "d",
      ";", "p", "?", "q">>

JoinBases ==
    {RfcBase, Empty, <<"a", "/", "b">>, <<"/", "/", "h">>,
     <<"/", "/", "h", "/", "x", "/", "y", "?", "q">>}

JoinRefs ==
    {Empty, <<"g">>, <<".", "/", "g">>, <<"g", "/">>, <<"/", "g">>,
     <<"/", "/", "g">>, <<"?", "y">>, <<"#", "s">>,
     <<".", ".", "/", ".", ".", "/", ".", ".", "/", "g">>,
     <<".">>, <<".", "/">>, <<".", ".">>, <<".", ".", "/">>,
     <<".", ".", "/", "g">>, <<".", ".", "/", ".", ".">>,
     <<".", ".", "/", ".", ".", "/", "g">>, <<"/", ".", "/", "g">>,
     <<"/", ".", ".", "/", "g">>, <<"g", ".">>, <<".", "g">>,
     <<"g", "?", "y">>, <<"g", "#", "s">>, <<"g", ":", "h">>,
     <<"/", "/", "g", "/", ".", ".", "/", "x">>, <<"g", "/", ".", ".", "/", "h">>}

JBase ==
    /\ op = "init"
    /\ \E b \in JoinBases :
           /\ inp' = b
           /\ self' = NewFromString(b)
    /\ op' = "base"
    /\ UNCHANGED <<args, res, str, err, other, cache>>

JRef ==
    /\ op = "base"
    /\ \E r \in JoinRefs :
           /\ args' = r
           /\ other' = NewFromString(r)
    /\ op' = "ref"
    /\ UNCHANGED <<inp, self, res, str, err, cache>>

JAdd ==
    /\ op = "ref"
    /\ res' = Add(self, other)
    /\ op' = "add"
    /\ UNCHANGED <<inp, self, args, str, err, other, cache>>

JStr ==
    /\ op = "add"
    /\ str' = AsString(res)
    /\ op' = "str"
    /\ UNCHANGED <<inp, self, args, res, err, other, cache>>

NextJoin == JBase \/ JRef \/ JAdd \/ JStr

SpecJoin == Blank /\ [][NextJoin]_vars

\* C2: joined to the base 'http://a/b/c/d;p?q' the references 'g', './g',
\* 'g/', '/g', '//g', '?y', '#s', '../../../g' and '' serialize as
\* 'http://a/b/c/g', 'http://a/b/c/g', 'http://a/b/c/g/', 'http://a/g',
\* 'http://g', 'http://a/b/c/d;p?y', 'http://a/b/c/d;p?q#s', 'http://a/g'
\* and 'http://a/b/c/d;p?q'.
C2_RfcVectors ==
    (op = "str" /\ inp = RfcBase) =>
        /\ args = <<"g">> =>
               str = <<"h", "t", "t", "p", ":", "/", "/", "a", "/", "b", "/",
                       "c", "/", "g">>
        /\ args = <<".", "/", "g">> =>
               str = <<"h", "t", "t", "p", ":", "/", "/", "a", "/", "b", "/",
                       "c", "/", "g">>
        /\ args = <<"g", "/">> =>
               str = <<"h", "t", "t", "p", ":", "/", "/", "a", "/", "b", "/",
                       "c", "/", "g", "/">>
        /\ args = <<"/", "g">> =>
               str = <<"h", "t", "t", "p", ":", "/", "/", "a", "/", "g">>
        /\ args = <<"/", "/", "g">> =>
               str = <<"h", "t", "t", "p", ":", "/", "/", "g">>
        /\ args = <<"?", "y">> =>
               str = <<"h", "t", "t", "p", ":", "/", "/", "a", "/", "b", "/",
                       "c", "/", "d", ";", "p", "?", "y">>
        /\ args = <<"#", "s">> =>
               str = <<"h", "t", "t", "p", ":", "/", "/", "a", "/", "b", "/",
                       "c", "/", "d", ";", "p", "?", "q", "#", "s">>
        /\ args = <<".", ".", "/", ".", ".", "/", ".", ".", "/", "g">> =>
               str = <<"h", "t", "t", "p", ":", "/", "/", "a", "/", "g">>
        /\ args = Empty =>
               str = <<"h", "t", "t", "p", ":", "/", "/", "a", "/", "b", "/",
                       "c", "/", "d", ";", "p", "?", "q">>

\* C2 witness: '../../../g' was joined to the RFC base and serialized
C2_Witness ==
    /\ op = "str"
    /\ inp = RfcBase
    /\ args = <<".", ".", "/", ".", ".", "/", ".", ".", "/", "g">>
    /\ res.path = <<"/", "g">>

-----------------------------------------------------------------------------
(* Spec: a caller holding two URLs, res and other, and applying parse,     *)
(* build, +, replace and setdefault in any order                           *)

MaxPathLen == 3

MainTexts ==
    {Empty, <<"a">>, <<"/", "b">>, <<".", ".", "/", "a">>, <<"/", "/", "h">>,
     <<"/", "/", "h", "/", "b">>, <<"/", "/", "h", "?", "q">>, <<"s", ":", "a">>,
     <<"/", "/", "/", "/", "a">>}

MainDefaults ==
    {[EmptyURL EXCEPT !.host = <<"h">>], [EmptyURL EXCEPT !.port = <<"8">>],
     [EmptyURL EXCEPT !.userinfo = <<"u">>], [EmptyURL EXCEPT !.path = <<"a">>],
     [EmptyURL EXCEPT !.scheme = <<"s">>]}

NoReplaceArgs == ReplaceArgs(None, None, None, None, None, None, None, None, None)

MainReplaceArgs ==
    {[NoReplaceArgs EXCEPT !.host = Some(<<"h">>)],
     [NoReplaceArgs EXCEPT !.host = Some(Empty)],
     [NoReplaceArgs EXCEPT !.path = Some(<<"a">>)],
     [NoReplaceArgs EXCEPT !.path = Some(Empty)],
     [NoReplaceArgs EXCEPT !.scheme = Some(Empty)],
     [NoReplaceArgs EXCEPT !.authority = Some(<<"h", ":", "8">>)],
     [NoReplaceArgs EXCEPT !.authority = Some(Empty)],
     [NoReplaceArgs EXCEPT !.full_path = Some(<<"a", "/", ".">>)],
     [NoReplaceArgs EXCEPT !.authority = Some(<<"h">>), !.host = Some(<<"h">>)]}

Parse ==
    /\ \E t \in MainTexts : res' = NewFromString(t)
    /\ op' = "parse"
    /\ err' = NoError
    /\ UNCHANGED <<inp, self, args, str, other, cache>>

Build ==
    /\ \E userinfo \in {Empty, <<"u">>}, host \in {Empty, <<"h">>},
          path \in {Empty, <<"a">>, <<"/", "b">>} :
           res' = NewFromParts(Empty, userinfo, host, Empty, path, Empty, Empty)
    /\ op' = "build"
    /\ err' = NoError
    /\ UNCHANGED <<inp, self, args, str, other, cache>>

\* the caller keeps the current URL as the operand of a later +
Keep ==
    /\ other' = res
    /\ op' = "keep"
    /\ err' = NoError
    /\ UNCHANGED <<inp, self, args, res, str, cache>>

\* res + other, or other + res
Join ==
    /\ \E left \in BOOLEAN :
           LET sum == IF left THEN Add(res, other) ELSE Add(other, res)
           IN  /\ Len(sum.path) <= MaxPathLen
               /\ res' = sum
    /\ op' = "add"
    /\ err' = NoError
    /\ UNCHANGED <<inp, self, args, str, other, cache>>

DoReplace ==
    /\ \E a \in MainReplaceArgs :
           IF ReplaceRaises(a)
           THEN err' = "TypeError" /\ res' = res
           ELSE err' = NoError /\ res' = Replace(res, a)
    /\ op' = "replace"
    /\ UNCHANGED <<inp, self, args, str, other, cache>>

DoSetDefault ==
    /\ \E d \in MainDefaults : res' = SetDefault(res, d)
    /\ op' = "setdefault"
    /\ err' = NoError
    /\ UNCHANGED <<inp, self, args, str, other, cache>>

Next == Parse \/ Build \/ Keep \/ Join \/ DoReplace \/ DoSetDefault

Spec == Blank /\ [][Next]_vars

\* a URL with an authority has an empty path or a path that starts with "/"
PathRule(u) == (HasAuthority(u) /\ u.path # Empty) => u.path[1] = "/"

\* C10: every URL obtained from texts by any sequence of parse, build, +,
\* replace and setdefault that has an authority and a non-empty path has a
\* path that starts with "/".
C10_AuthorityPath == PathRule(res) /\ PathRule(other)

\* C10 witness: before any URL was kept for a +, setdefault returned a URL
\* with an authority whose path is "/a"; no text or component reads "/a", so
\* the "/" was inserted by replace or setdefault
C10_Witness ==
    /\ op = "setdefault"
    /\ other = EmptyURL
    /\ HasAuthority(res)
    /\ res.path = <<"/", "a">>

-----------------------------------------------------------------------------
(* SpecCache: a sequence of CachedURL(text) calls                          *)

NTexts == 22

FreshWindow == 2

CacheAlphabet == <<"a", "/", ":">>

\* the i-th text handed to the cache: (i - 1) \div 3 times "a", then one
\* character of CacheAlphabet; distinct for distinct i
Text(i) ==
    [k \in 1..((i - 1) \div 3 + 1) |->
        IF k <= (i - 1) \div 3 THEN "a" ELSE CacheAlphabet[((i - 1) % 3) + 1]]

\* the texts a call may carry: every cached text (a hit) and the first
\* FreshWindow texts that are not cached (a miss)
Requestable(c) ==
    LET missing == {i \in 1..NTexts : Text(i) \notin DOMAIN c}
    IN  {i \in 1..NTexts :
            \/ Text(i) \in DOMAIN c
            \/ i \in missing /\ Cardinality({j \in missing : j < i}) < FreshWindow}

CGet ==
    /\ \E i \in Requestable(cache) :
           /\ inp' = Text(i)
           /\ res' = CacheGet(cache, Text(i))
           /\ cache' = CacheAfter(cache, Text(i))
    /\ op' = "get"
    /\ UNCHANGED <<self, args, str, err, other>>

NextCache == CGet

SpecCache == Blank /\ [][NextCache]_vars

\* C9: the mapping never holds more than its capacity of 20 entries; a miss
\* that finds it at capacity leaves it holding exactly the new entry; a hit
\* leaves it unchanged; every call returns parse(text).
C9_ClearOnOverflow ==
    [][op' = "get" =>
          /\ Cardinality(DOMAIN cache') <= 20
          /\ inp' \in DOMAIN cache => cache' = cache
          /\ (inp' \notin DOMAIN cache /\ Cardinality(DOMAIN cache) >= 20)
                 => (DOMAIN cache' = {inp'} /\ cache'[inp'] = NewFromString(inp'))
          /\ res' = NewFromString(inp')]_vars

\* C9 witness: the mapping holds exactly one entry, for a text that is
\* requestable only once 19 others are cached: it was cleared at capacity
C9_Witness ==
    /\ op = "get"
    /\ DOMAIN cache = {inp}
    /\ inp = Text(21)

====
